---------------------------- MODULE Spec2Model ----------------------------
(***************************************************************************)
(* openclaw-face: the status polling hooks (useStatusPolling,              *)
(* useManualStatusPolling) and the HeartbeatCanvas animator, as state      *)
(* machines.                                                               *)
(*                                                                         *)
(* Time is counted in polling intervals: one Tick is the passing of        *)
(* `interval` milliseconds, at which every armed setInterval timer calls   *)
(* its callback.  A fetch attempt is initiated by fetchStatus and completes *)
(* later, in any order, with a response drawn from Responses.              *)
(*                                                                         *)
(* Numbers that the animator interpolates (amplitude, colour channels) are *)
(* carried in hundredths (Unit); transitionProgress, time and phase are    *)
(* carried as the number of increments applied (1/60, 1/60 and 0.05).      *)
(***************************************************************************)
EXTENDS Integers, FiniteSets, Sequences, TLC

\* ------------------------------------------------------------- bounds
MaxMaxFailures == 2     \* a hook alone: maxFailures is configured in 0..MaxMaxFailures
MaxTime        == 4     \* App: the clock stops after this many intervals
MaxAttempts    == 4     \* App: fetch attempts initiated in one run
MaxHookTime     == 3    \* a hook alone: the clock stops after this many intervals
MaxHookAttempts == 3    \* a hook alone: fetch attempts initiated in one run
MaxTimers      == 2     \* timers armed at one time
MaxFrames      == 3     \* frames drawn in one run of the composed App; the canvas alone:
                        \* the props change only before this many frames are drawn
MaxCanvasFrames == 62   \* the canvas alone: frames drawn in one run
MaxEvents      == 2     \* the producers alone: calls in one run
MaxLoopsTime     == 2   \* the two loops of App: the clock stops after this many intervals
MaxLoopsAttempts == 2   \* the two loops of App: fetch attempts initiated in one run

\* ------------------------------------------------------------- JSON values
\* A JSON value as JavaScript sees it: its typeof and its payload.
JUndefined == [type |-> "undefined", b |-> FALSE, n |-> 0, s |-> ""]
JBool(x)   == [type |-> "boolean",   b |-> x,     n |-> 0, s |-> ""]
JNum(x)    == [type |-> "number",    b |-> FALSE, n |-> x, s |-> ""]
JStr(x)    == [type |-> "string",    b |-> FALSE, n |-> 0, s |-> x]

TypeOf(v) == v.type

\* What one fetch attempt can meet.  kind "network": fetch() rejects;
\* "http": response.ok is false; "parse": response.json() rejects;
\* "null": the body parses to null; "object": the body parses to an object
\* with the fields given (absent fields are undefined).
Resp(kind, busy, model, ts, taskId, sessionKey, source) ==
    [kind |-> kind, busy |-> busy, model |-> model, ts |-> ts,
     taskId |-> taskId, sessionKey |-> sessionKey, source |-> source]

NoBody(kind) ==
    Resp(kind, JUndefined, JUndefined, JUndefined, JUndefined, JUndefined, JUndefined)

Body(busy, model, ts, taskId, sessionKey, source) ==
    Resp("object", busy, model, ts, taskId, sessionKey, source)

DocBusy  == Body(JBool(TRUE),  JStr("claude"), JNum(7), JStr("task-1"), JUndefined, JUndefined)
DocIdle  == Body(JBool(FALSE), JStr("claude"), JNum(8), JUndefined,     JUndefined, JUndefined)
\* the document the producer uploads: busy, ts, sessionKey, source
DocProducer == Body(JBool(TRUE), JUndefined, JNum(7), JUndefined, JStr("agent:main:main"), JStr("telegram"))
DocBadBusy  == Body(JStr("yes"),  JStr("claude"), JNum(7), JUndefined, JUndefined, JUndefined)
DocBadTs    == Body(JBool(TRUE),  JStr("claude"), JStr("7"), JUndefined, JUndefined, JUndefined)

\* The payloads the command handler builds: busy = (event.action === 'new'),
\* ts = event.timestamp.getTime(), sessionKey = event.sessionKey (a string),
\* source = event.context.commandSource (a string or undefined).
StatusPayload(busy, ts, sessionKey, source) ==
    [busy |-> busy, ts |-> ts, sessionKey |-> sessionKey, source |-> source]

StatusPayloads ==
    { StatusPayload(TRUE, 7, "agent:main:main", JStr("telegram")),
      StatusPayload(FALSE, 7, "agent:main:main", JUndefined) }

\* JSON.parse(JSON.stringify(payload)): a boolean, a finite number and a string
\* come back as they were; a field that is undefined is left out.
UploadedDoc(payload) ==
    Body(JBool(payload.busy), JUndefined, JNum(payload.ts), JUndefined,
         JStr(payload.sessionKey), payload.source)

Responses ==
    { NoBody("network"), NoBody("http"), NoBody("parse"), NoBody("null"),
      DocBusy, DocIdle, DocProducer, DocBadBusy, DocBadTs }
    \cup { UploadedDoc(payload) : payload \in StatusPayloads }

\* ------------------------------------------------------------- the producers
\* What a producer call did: the PutObjectCommand it sent, if any, and how its
\* promise ended ("resolved", or the class of the error it rejected with and
\* that error's cause).
NoCommand == [sent |-> FALSE, key |-> "", body |-> NoBody("absent")]

PutObjectCommand(key, body) == [sent |-> TRUE, key |-> key, body |-> body]

Ended(command, outcome, cause) ==
    [command |-> command, outcome |-> outcome, cause |-> cause]

\* client.send(command): "ok" resolves, "reject" rejects with a store error
SendResults == {"ok", "reject"}

\* The events OpenClaw hands to the command handler.
HandlerEvents ==
    [type : {"command", "agent"},
     action : {"new", "stop", "reset", "unknown"},
     sessionKey : {"agent:main:main"},
     timestamp : {7, 8},
     commandSource : {JStr("telegram"), JUndefined}]

\* const busy = event.action === 'new'; const payload = { busy, ts, sessionKey, source }
HandlerPayload(event) ==
    StatusPayload(event.action = "new", event.timestamp, event.sessionKey,
                  event.commandSource)

\* (mutant of HandlerUploadStatus: the send is awaited outside the try block)
HandlerUploadStatusUncaught(payload, bucket, sendResult) ==
    IF ~bucket
    THEN Ended(NoCommand, "resolved", "none")
    ELSE Ended(PutObjectCommand("status.json", UploadedDoc(payload)),
               IF sendResult = "reject" THEN "Error" ELSE "resolved",
               IF sendResult = "reject" THEN "send" ELSE "none")

\* uploadStatus of handler.ts
HandlerUploadStatus(payload, bucket, sendResult) ==
    IF ~bucket
    THEN Ended(NoCommand, "resolved", "none")
    ELSE Ended(PutObjectCommand("status.json", UploadedDoc(payload)), "resolved", "none")

\* (mutant of handler: only the actions new, stop and reset are uploaded)
handlerKnownActionsOnly(event, bucket, sendResult) ==
    IF event.type # "command" \/ event.action \notin {"new", "stop", "reset"}
    THEN Ended(NoCommand, "resolved", "none")
    ELSE HandlerUploadStatus(HandlerPayload(event), bucket, sendResult)

\* the default export of handler.ts
handler(event, bucket, sendResult) ==
    IF event.type # "command"
    THEN Ended(NoCommand, "resolved", "none")
    ELSE HandlerUploadStatus(HandlerPayload(event), bucket, sendResult)

\* The events handed to R2StatusHook; "error" stands for any other type.
HookEvents ==
    [type : {"model_call", "complete", "error"},
     model : {"claude"},
     taskId : {JStr("task-1"), JStr(""), JUndefined},
     timestamp : {7, 8}]

\* R2StatusHook.createStatusPayload: taskId is copied when it is truthy
createStatusPayload(event, busy) ==
    [busy |-> busy, model |-> event.model, ts |-> event.timestamp,
     taskId |-> IF event.taskId.type = "string" /\ event.taskId.s # ""
                THEN event.taskId ELSE JUndefined]

HookPayloads ==
    { createStatusPayload(e, b) : e \in HookEvents, b \in BOOLEAN }

STATUS_FILE_KEY == "status.json"

\* R2Uploader.createPutObjectCommand: Body: JSON.stringify(payload)
createPutObjectCommand(payload) ==
    PutObjectCommand(STATUS_FILE_KEY,
                     Body(JBool(payload.busy), JStr(payload.model), JNum(payload.ts),
                          payload.taskId, JUndefined, JUndefined))

\* (mutant of UploaderUploadStatus: the catch block rethrows the error it caught)
UploaderUploadStatusRethrows(payload, sendResult) ==
    Ended(createPutObjectCommand(payload),
          IF sendResult = "reject" THEN "Error" ELSE "resolved",
          "none")

\* R2Uploader.uploadStatus with handleUploadError
UploaderUploadStatus(payload, sendResult) ==
    Ended(createPutObjectCommand(payload),
          IF sendResult = "reject" THEN "UploadError" ELSE "resolved",
          IF sendResult = "reject" THEN "send" ELSE "none")

\* R2StatusHook.uploadStatus: the uploader's rejection is caught and logged
HookUploadStatus(payload, sendResult) ==
    [UploaderUploadStatus(payload, sendResult) EXCEPT !.outcome = "resolved",
                                                      !.cause = "none"]

onModelCall(event, sendResult) ==
    HookUploadStatus(createStatusPayload(event, TRUE), sendResult)

onComplete(event, sendResult) ==
    HookUploadStatus(createStatusPayload(event, FALSE), sendResult)

\* (mutant of handleEvent: an event of another type is handled as complete)
handleEventDefaultComplete(event, sendResult) ==
    IF event.type = "model_call" THEN onModelCall(event, sendResult)
    ELSE onComplete(event, sendResult)

\* R2StatusHook.handleEvent
handleEvent(event, sendResult) ==
    CASE event.type = "model_call" -> onModelCall(event, sendResult)
      [] event.type = "complete" -> onComplete(event, sendResult)
      [] OTHER -> Ended(NoCommand, "resolved", "none")

\* (mutant of StoreAfter: an object that exists is not written over)
StoreAfterKeepsFirst(st, ended, sendResult) ==
    IF ended.command.sent /\ sendResult = "ok" /\ ended.command.key = "status.json"
       /\ st = NoBody("absent")
    THEN ended.command.body
    ELSE st

\* The bucket after a call: a command that was sent and not rejected replaces
\* the object under its key.
StoreAfter(st, ended, sendResult) ==
    IF ended.command.sent /\ sendResult = "ok" /\ ended.command.key = "status.json"
    THEN ended.command.body
    ELSE st

NoCall == [fn |-> "none", arg |-> NoCommand, sendResult |-> "ok",
           ended |-> Ended(NoCommand, "resolved", "none")]

\* ------------------------------------------------------------- state
VARIABLES
    hook,            \* "app": useStatusPolling in App, "auto": useStatusPolling alone,
                     \* "manual": useManualStatusPolling alone, "canvas": HeartbeatCanvas
                     \* alone, "producer": the hooks that write status.json
    lifecycle,       \* "rendered" (before effects), "mounted", "unmounted"
    maxFailures,     \* the hook's maxFailures argument
    now,             \* the clock, in intervals
    status,          \* useState<AgentStatus | null>
    statusFresh,     \* the status object is not the one the props effect last ran on
    connectionState, \* useState<ConnectionState>
    intervalIdRef,   \* useRef: the armed timer's id, 0 for null
    isPollingRef,    \* useRef<boolean> (useStatusPolling)
    isPolling,       \* useState<boolean> (useManualStatusPolling)
    renderedIsPolling, \* isPolling as captured by the callbacks of the last render
    timers,          \* ids of the setInterval timers that are armed
    inflight,        \* fetch attempts initiated and not yet completed
    fetchCalls,      \* fetch() calls so far; attempts are numbered 1..fetchCalls
    history,         \* what has happened, for stating the properties
    p5Ref,           \* useRef<p5 | null>: TRUE while the p5 instance exists
    setupPending,    \* the p5 instance waits for the window's load event to run setup
    looping,         \* the p5 instance calls p.draw once per frame
    stateRef,        \* useRef: the sketch state st, or null
    effectConnected, \* connectionState.connected at the last run of the props effect
    bucketSet,       \* process.env.R2_BUCKET is set (handler.ts)
    store,           \* the object stored under status.json, as JSON.parse gives it
    calls,           \* calls of the producers' entry points so far
    lastCall,        \* the last such call: its argument, what it sent, how it ended
    updateRef        \* useRef of the react-p5 variant: the functions made by
                     \* updateSketchStatus(status, connectionState), or null

pollerVars == <<hook, lifecycle, maxFailures, now, status, statusFresh, connectionState,
                intervalIdRef, isPollingRef, isPolling, renderedIsPolling,
                timers, inflight, fetchCalls, history>>

canvasVars == <<p5Ref, setupPending, looping, stateRef, effectConnected>>

producerVars == <<bucketSet, store, calls, lastCall>>

sketchVars == <<updateRef>>

vars == <<pollerVars, canvasVars, producerVars, sketchVars>>

NullStatus ==
    [present |-> FALSE, busy |-> FALSE, model |-> "", ts |-> 0, taskId |-> JUndefined]

defaultConnectionState ==
    [connected |-> TRUE, lastSuccessTime |-> 0, failureCount |-> 0]

\* useStatusPolling's default for its parameter maxFailures
DefaultMaxFailures == 3

\* ------------------------------------------------------------- fetchStatus
\* (mutant of Throws: a response that is not ok is not thrown on)
ThrowsExceptHttp(r) ==
    \/ r.kind = "network"
    \/ r.kind = "parse"
    \/ r.kind = "null"
    \/ (r.kind = "object" /\ (\/ TypeOf(r.busy) # "boolean"
                              \/ TypeOf(r.model) # "string"
                              \/ TypeOf(r.ts) # "number"))

\* Whether the try block of fetchStatus throws on response r: fetch rejects,
\* response.ok is false, response.json() rejects, data is null (reading
\* data.busy throws), or the validation of the required fields fails.
Throws(r) ==
    \/ r.kind = "network"
    \/ r.kind = "http"
    \/ r.kind = "parse"
    \/ r.kind = "null"
    \/ TypeOf(r.busy) # "boolean"
    \/ TypeOf(r.model) # "string"
    \/ TypeOf(r.ts) # "number"

\* The statement of fetchStatus at which response r makes it throw: the await
\* of fetch, the check of response.ok, the await of response.json(), the read
\* of data.busy (data is null), the validation; "none" when nothing throws.
ThrowSite(r) ==
    CASE r.kind = "network" -> "fetch"
      [] r.kind = "http" -> "ok"
      [] r.kind = "parse" -> "json"
      [] r.kind = "null" -> "read"
      [] OTHER -> IF Throws(r) THEN "validation" ELSE "none"

\* (mutant of InsideTry: the body is read and validated after the try block)
InsideTryUpToJson == {"fetch", "ok", "json"}

\* the statements that the try block of fetchStatus encloses
InsideTry == {"fetch", "ok", "json", "read", "validation"}

\* Whether the error thrown on response r leaves fetchStatus, rejecting its
\* promise.
Escapes(r) == ThrowSite(r) \notin (InsideTry \cup {"none"})

\* const newStatus: AgentStatus = { busy, model, ts, taskId }
NewStatus(r) ==
    [present |-> TRUE, busy |-> r.busy.b, model |-> r.model.s, ts |-> r.ts.n,
     taskId |-> r.taskId]

\* (mutants of OnSuccess: the count, or the flag, is carried over)
OnSuccessKeepsCount(prev, t) ==
    [connected |-> TRUE, lastSuccessTime |-> t, failureCount |-> prev.failureCount]

OnSuccessKeepsConnected(prev, t) ==
    [connected |-> prev.connected, lastSuccessTime |-> t, failureCount |-> 0]

\* setConnectionState(_prev => ({connected: true, lastSuccessTime: Date.now(), failureCount: 0}))
OnSuccess(prev, t) ==
    [connected |-> TRUE, lastSuccessTime |-> t, failureCount |-> 0]

\* (mutant of OnFailure: the count is read from the connectionState of the
\* render that made fetchStatus, not from prev)
OnFailureFromClosure(prev, maxF) ==
    LET newFailureCount == 0 + 1
        isConnected     == newFailureCount < maxF
    IN  [connected |-> isConnected, lastSuccessTime |-> prev.lastSuccessTime,
         failureCount |-> newFailureCount]

\* (mutant of OnFailure: the catch branch stamps lastSuccessTime)
OnFailureStampsTime(prev, maxF) ==
    LET newFailureCount == prev.failureCount + 1
        isConnected     == newFailureCount < maxF
    IN  [connected |-> isConnected, lastSuccessTime |-> now,
         failureCount |-> newFailureCount]

\* (mutant of OnFailure: <= for <)
OnFailureOffByOne(prev, maxF) ==
    LET newFailureCount == prev.failureCount + 1
        isConnected     == newFailureCount <= maxF
    IN  [connected |-> isConnected, lastSuccessTime |-> prev.lastSuccessTime,
         failureCount |-> newFailureCount]

\* setConnectionState(prev => ...) of the catch branch
OnFailure(prev, maxF) ==
    LET newFailureCount == prev.failureCount + 1
        isConnected     == newFailureCount < maxF
    IN  [connected |-> isConnected, lastSuccessTime |-> prev.lastSuccessTime,
         failureCount |-> newFailureCount]

\* The state kept by the hook after the attempt has met response r.  React 18
\* applies setStatus and setConnectionState of one continuation in one batch.
\* (mutant of StatusAfter: a failure clears the status)
StatusAfterClearing(r) ==
    IF Throws(r) THEN NullStatus ELSE NewStatus(r)

StatusAfter(r) ==
    IF Throws(r) THEN status ELSE NewStatus(r)

\* (mutant of ConnectionAfter: the success branch leaves connectionState to a
\* later update)
ConnectionAfterStatusFirst(r) ==
    IF Throws(r) THEN OnFailure(connectionState, maxFailures)
                 ELSE connectionState

ConnectionAfter(r) ==
    IF Throws(r) THEN OnFailure(connectionState, maxFailures)
                 ELSE OnSuccess(connectionState, now)

AttemptLimit ==
    CASE hook = "app" -> MaxAttempts
      [] hook = "loops" -> MaxLoopsAttempts
      [] OTHER -> MaxHookAttempts
FrameLimit   == IF hook \in {"canvas", "loops"} THEN MaxCanvasFrames ELSE MaxFrames
TimeLimit ==
    CASE hook = "app" -> MaxTime
      [] hook = "loops" -> MaxLoopsTime
      [] OTHER -> MaxHookTime

\* fetchStatus() up to its first await: n calls of fetch(), each an attempt.
CallFetch(n) ==
    /\ fetchCalls + n <= AttemptLimit
    /\ fetchCalls' = fetchCalls + n
    /\ inflight' = inflight \cup ((fetchCalls + 1)..(fetchCalls + n))

\* setInterval(fetchStatus, interval): the id returned is one that no armed timer
\* has.
SetInterval ==
    /\ Cardinality(timers) < MaxTimers
    /\ LET id == CHOOSE i \in 1..MaxTimers :
                     i \notin timers /\ \A j \in 1..(i - 1) : j \in timers
       IN  /\ timers' = timers \cup {id}
           /\ intervalIdRef' = id

\* (mutant of Complete: stopPolling makes the hook drop what outstanding
\* attempts bring)
CompleteUnlessStopped(a, r) ==
    /\ a \in inflight
    /\ inflight' = inflight \ {a}
    /\ IF Escapes(r)
       THEN /\ UNCHANGED <<status, statusFresh, connectionState>>
            /\ history' = [history EXCEPT !.awaited = @ \ {a}, !.escaped = TRUE]
       ELSE IF lifecycle = "unmounted" \/ history.stopped
       THEN /\ UNCHANGED <<status, statusFresh, connectionState>>
            /\ history' = [history EXCEPT !.awaited = @ \ {a}]
       ELSE /\ status' = StatusAfter(r)
            /\ statusFresh' = (statusFresh \/ ~Throws(r))
            /\ connectionState' = ConnectionAfter(r)
            /\ history' = [history EXCEPT
                   !.consecFails = IF Throws(r) THEN @ + 1 ELSE 0,
                   !.lastGood = IF Throws(r) THEN @ ELSE NewStatus(r),
                   !.resetFrom = IF Throws(r) THEN @ ELSE connectionState.failureCount,
                   !.lastGoodAt = IF Throws(r) THEN @ ELSE now,
                   !.awaited = @ \ {a}]
    /\ UNCHANGED <<hook, lifecycle, maxFailures, now, intervalIdRef, isPollingRef,
                   isPolling, renderedIsPolling, timers, fetchCalls,
                   canvasVars>>
    /\ UNCHANGED producerVars
    /\ UNCHANGED sketchVars

\* The rest of fetchStatus: attempt a meets response r and the hook's state is
\* updated.  After unmount React drops the state updates.
Complete(a, r) ==
    /\ a \in inflight
    /\ inflight' = inflight \ {a}
    /\ IF Escapes(r)
       THEN /\ UNCHANGED <<status, statusFresh, connectionState>>
            /\ history' = [history EXCEPT !.awaited = @ \ {a}, !.escaped = TRUE]
       ELSE IF lifecycle = "unmounted"
       THEN /\ UNCHANGED <<status, statusFresh, connectionState>>
            /\ history' = [history EXCEPT !.awaited = @ \ {a}]
       ELSE /\ status' = StatusAfter(r)
            /\ statusFresh' = (statusFresh \/ ~Throws(r))
            /\ connectionState' = ConnectionAfter(r)
            /\ history' = [history EXCEPT
                   !.consecFails = IF Throws(r) THEN @ + 1 ELSE 0,
                   !.lastGood = IF Throws(r) THEN @ ELSE NewStatus(r),
                   !.resetFrom = IF Throws(r) THEN @ ELSE connectionState.failureCount,
                   !.lastGoodAt = IF Throws(r) THEN @ ELSE now,
                   !.awaited = @ \ {a}]
    /\ UNCHANGED <<hook, lifecycle, maxFailures, now, intervalIdRef, isPollingRef,
                   isPolling, renderedIsPolling, timers, fetchCalls,
                   canvasVars>>
    /\ UNCHANGED producerVars
    /\ UNCHANGED sketchVars

FetchCompletes == \E a \in inflight : \E r \in Responses : Complete(a, r)

\* ------------------------------------------------------------- useStatusPolling
\* startPolling of useStatusPolling
StartPollingAuto(h) ==
    IF isPollingRef
    THEN /\ UNCHANGED <<isPollingRef, fetchCalls, inflight, timers, intervalIdRef>>
         /\ history' = h
    ELSE /\ isPollingRef' = TRUE
         /\ CallFetch(1)
         /\ SetInterval
         /\ history' = [h EXCEPT !.schedCalls = @ + 1, !.starts = @ + 1,
                                 !.startedAt = now, !.stopped = FALSE]

\* stopPolling of useStatusPolling
StopPollingAuto ==
    /\ IF intervalIdRef # 0
       THEN /\ timers' = timers \ {intervalIdRef}
            /\ intervalIdRef' = 0
       ELSE UNCHANGED <<timers, intervalIdRef>>
    /\ isPollingRef' = FALSE
    /\ history' = [history EXCEPT !.stopped = TRUE]

\* ------------------------------------------------------------- useManualStatusPolling
\* startPolling of useManualStatusPolling: isPolling is the value the callback
\* captured at the render that created it.
StartPollingManual ==
    IF renderedIsPolling
    THEN UNCHANGED <<isPolling, fetchCalls, inflight, timers, intervalIdRef, history>>
    ELSE /\ isPolling' = TRUE
         /\ CallFetch(1)
         /\ SetInterval
         /\ history' = [history EXCEPT !.schedCalls = @ + 1, !.starts = @ + 1,
                                       !.startedAt = now, !.stopped = FALSE]

\* stopPolling of useManualStatusPolling
StopPollingManual ==
    /\ IF intervalIdRef # 0
       THEN /\ timers' = timers \ {intervalIdRef}
            /\ intervalIdRef' = 0
       ELSE UNCHANGED <<timers, intervalIdRef>>
    /\ isPolling' = FALSE
    /\ history' = [history EXCEPT !.stopped = TRUE]

\* the unmount cleanup of useManualStatusPolling
CleanupManual ==
    /\ IF intervalIdRef # 0
       THEN timers' = timers \ {intervalIdRef}
       ELSE UNCHANGED timers
    /\ history' = [history EXCEPT !.stopped = TRUE]
    /\ UNCHANGED <<intervalIdRef, isPolling>>

\* ------------------------------------------------------------- HeartbeatCanvas
Rate == 60              \* p.frameRate(60); transitionProgress += 1 / 60
Unit == 100             \* interpolated numbers are carried in hundredths

Color(r, g, b) == <<r * Unit, g * Unit, b * Unit>>

IdleColor         == Color(76, 175, 80)
BusyColor         == Color(255, 165, 0)
DisconnectedColor == Color(158, 158, 158)
IdleAmplitude         == 30 * Unit
BusyAmplitude         == 40 * Unit
DisconnectedAmplitude == 20 * Unit

\* stateRef.current = { phase: 0, time: 0, currentState: 'idle', ... } of p.setup
InitialSketchState ==
    [present |-> TRUE, phase |-> 0, time |-> 0,
     currentState |-> "idle", targetState |-> "idle",
     transitionProgress |-> Rate,
     currentColor |-> IdleColor, targetColor |-> IdleColor,
     currentAmplitude |-> IdleAmplitude, targetAmplitude |-> IdleAmplitude,
     width |-> 400, height |-> 200]

\* <<container.clientWidth, Math.min(300, window.innerHeight * 0.4)>> of the
\* windows the page is shown in
WindowSizes == {<<400, 200>>, <<800, 300>>}

NullSketchState == [InitialSketchState EXCEPT !.present = FALSE]

\* (mutant of NewTargetState: busy is looked at before connected)
NewTargetStateBusyFirst(stat, conn) ==
    IF stat.present /\ stat.busy THEN "busy"
    ELSE IF ~conn.connected THEN "disconnected"
    ELSE "idle"

\* the if / else if / else of the props effect
NewTargetState(stat, conn) ==
    IF ~conn.connected THEN "disconnected"
    ELSE IF stat.present /\ stat.busy THEN "busy"
    ELSE "idle"

\* the switch of the props effect
TargetColorOf(target) ==
    CASE target = "idle" -> IdleColor
      [] target = "busy" -> BusyColor
      [] target = "disconnected" -> DisconnectedColor

TargetAmplitudeOf(target) ==
    CASE target = "idle" -> IdleAmplitude
      [] target = "busy" -> BusyAmplitude
      [] target = "disconnected" -> DisconnectedAmplitude

\* (mutant of BeginTransition: the transition is begun again on every update)
BeginTransitionAlways(st, newTargetState) ==
    [st EXCEPT !.currentState = IF newTargetState # st.targetState
                                 THEN st.targetState ELSE @,
               !.targetState = newTargetState,
               !.transitionProgress = 0,
               !.targetColor = TargetColorOf(newTargetState),
               !.targetAmplitude = TargetAmplitudeOf(newTargetState)]

\* (mutant of BeginTransition: currentState is left as it is)
BeginTransitionKeepsCurrent(st, newTargetState) ==
    IF newTargetState # st.targetState
    THEN [st EXCEPT !.targetState = newTargetState,
                    !.transitionProgress = 0,
                    !.targetColor = TargetColorOf(newTargetState),
                    !.targetAmplitude = TargetAmplitudeOf(newTargetState)]
    ELSE st

\* (mutant of BeginTransition: the switch sets the colour only)
BeginTransitionKeepsAmplitude(st, newTargetState) ==
    IF newTargetState # st.targetState
    THEN [st EXCEPT !.currentState = st.targetState,
                    !.targetState = newTargetState,
                    !.transitionProgress = 0,
                    !.targetColor = TargetColorOf(newTargetState)]
    ELSE st

\* if (newTargetState !== st.targetState) { ... }
BeginTransition(st, newTargetState) ==
    IF newTargetState # st.targetState
    THEN [st EXCEPT !.currentState = st.targetState,
                    !.targetState = newTargetState,
                    !.transitionProgress = 0,
                    !.targetColor = TargetColorOf(newTargetState),
                    !.targetAmplitude = TargetAmplitudeOf(newTargetState)]
    ELSE st

\* The body of the props effect on sketch state st (null: the effect returns).
PropsEffectBody(st, p, stat, conn) ==
    IF ~st.present \/ ~p THEN st
    ELSE BeginTransition(st, NewTargetState(stat, conn))

\* --- the sketch module (sketches/heartbeat.ts), used by the react-p5 variant
\* The names bound at the top level of heartbeat.ts, where updateSketchStatus
\* is declared.  `state` and `p` are declared inside createHeartbeatSketch.
ModuleScope ==
    {"p5", "parseColor", "easeInOutCubic", "lerpColor", "createHeartbeatSketch",
     "drawHeartbeat", "updateSketchStatus"}

\* updateStatus and updateConnection begin with `if (!p || !state) return;`:
\* reading a name that is not bound throws a ReferenceError.
ThrowsReferenceError == ~({"p", "state"} \subseteq ModuleScope)

\* updateRef.current: null, or the pair of functions, which close over the
\* connectionState passed to updateSketchStatus
NullUpdateRef == [present |-> FALSE, connected |-> TRUE]

updateSketchStatus(stat, conn) == [present |-> TRUE, connected |-> conn.connected]

SketchBusyColor == Color(244, 67, 54)

SketchBeginTransition(st, newTargetState) ==
    IF newTargetState # st.targetState
    THEN [st EXCEPT !.currentState = st.targetState,
                    !.targetState = newTargetState,
                    !.transitionProgress = 0,
                    !.targetColor = IF newTargetState = "busy" THEN SketchBusyColor
                                    ELSE TargetColorOf(newTargetState),
                    !.targetAmplitude = TargetAmplitudeOf(newTargetState)]
    ELSE st

\* updateStatus(newStatus) of a pair made when connected was closureConnected
updateStatus(st, closureConnected, newStatus) ==
    SketchBeginTransition(st,
        IF ~closureConnected THEN "disconnected"
        ELSE IF newStatus.present /\ newStatus.busy THEN "busy"
        ELSE "idle")

updateConnection(st, connected) ==
    SketchBeginTransition(st,
        IF ~connected THEN "disconnected"
        ELSE IF st.targetState = "busy" THEN "busy"
        ELSE "idle")

\* The update effect of the variant throws when it calls updateStatus.
SketchEffectThrows(ref) == ref.present /\ ThrowsReferenceError

\* The sketch state after the update effect: updateStatus(status), then
\* updateConnection(connectionState.connected).
SketchEffectBody(st, ref, stat, conn) ==
    IF ~ref.present \/ SketchEffectThrows(ref) THEN st
    ELSE updateConnection(updateStatus(st, ref.connected, stat), conn.connected)

\* eased = t < 0.5 ? 4 t^3 : 1 - (-2t + 2)^3 / 2 at t = k / Rate, as a
\* numerator over EaseDen = Rate^3 / 4
EaseDen == (Rate * Rate * Rate) \div 4

\* (mutant of Eased: the upper branch is 1 - (-2t + 2)^3, not halved)
EasedNotHalved(k) ==
    IF 2 * k < Rate THEN k * k * k
    ELSE EaseDen - 2 * (Rate - k) * (Rate - k) * (Rate - k)

Eased(k) ==
    IF 2 * k < Rate THEN k * k * k
    ELSE EaseDen - (Rate - k) * (Rate - k) * (Rate - k)

\* p.lerp(start, stop, eased)
Lerp(start, stop, k) == start + ((stop - start) * Eased(k)) \div EaseDen

LerpColor(c1, c2, k) == [i \in 1..3 |-> Lerp(c1[i], c2[i], k)]

\* (mutant of DrawFrame: the transition completes when progress is past 1)
DrawFrameLate(st) ==
    LET s1 == [st EXCEPT !.time = @ + 1, !.phase = @ + 1]
    IN  IF s1.transitionProgress <= Rate /\ s1.currentState # s1.targetState
        THEN LET t  == s1.transitionProgress + 1
                 s2 == IF t > Rate
                       THEN [s1 EXCEPT !.transitionProgress = Rate,
                                       !.currentState = s1.targetState]
                       ELSE [s1 EXCEPT !.transitionProgress = t]
             IN  [s2 EXCEPT
                    !.currentColor = LerpColor(s2.currentColor, s2.targetColor, s2.transitionProgress),
                    !.currentAmplitude = Lerp(s2.currentAmplitude, s2.targetAmplitude, s2.transitionProgress)]
        ELSE s1

\* (mutant of DrawFrame: progress is clamped to 1 but currentState is not set)
DrawFrameLeavesCurrentState(st) ==
    LET s1 == [st EXCEPT !.time = @ + 1, !.phase = @ + 1]
    IN  IF s1.transitionProgress < Rate
        THEN LET t  == s1.transitionProgress + 1
                 s2 == IF t >= Rate
                       THEN [s1 EXCEPT !.transitionProgress = Rate]
                       ELSE [s1 EXCEPT !.transitionProgress = t]
             IN  [s2 EXCEPT
                    !.currentColor = LerpColor(s2.currentColor, s2.targetColor, s2.transitionProgress),
                    !.currentAmplitude = Lerp(s2.currentAmplitude, s2.targetAmplitude, s2.transitionProgress)]
        ELSE s1

\* (mutant of DrawFrame: phase is advanced only while a transition is under way)
DrawFramePhaseInTransition(st) ==
    LET s1 == [st EXCEPT !.time = @ + 1,
                         !.phase = IF st.transitionProgress < Rate THEN @ + 1 ELSE @]
    IN  IF s1.transitionProgress < Rate
        THEN LET t  == s1.transitionProgress + 1
                 s2 == IF t >= Rate
                       THEN [s1 EXCEPT !.transitionProgress = Rate,
                                       !.currentState = s1.targetState]
                       ELSE [s1 EXCEPT !.transitionProgress = t]
             IN  [s2 EXCEPT
                    !.currentColor = LerpColor(s2.currentColor, s2.targetColor, s2.transitionProgress),
                    !.currentAmplitude = Lerp(s2.currentAmplitude, s2.targetAmplitude, s2.transitionProgress)]
        ELSE s1

\* the state update of p.draw
DrawFrame(st) ==
    LET s1 == [st EXCEPT !.time = @ + 1, !.phase = @ + 1]
    IN  IF s1.transitionProgress < Rate
        THEN LET t  == s1.transitionProgress + 1
                 s2 == IF t >= Rate
                       THEN [s1 EXCEPT !.transitionProgress = Rate,
                                       !.currentState = s1.targetState]
                       ELSE [s1 EXCEPT !.transitionProgress = t]
             IN  [s2 EXCEPT
                    !.currentColor = LerpColor(s2.currentColor, s2.targetColor, s2.transitionProgress),
                    !.currentAmplitude = Lerp(s2.currentAmplitude, s2.targetAmplitude, s2.transitionProgress)]
        ELSE s1

\* ------------------------------------------------------------- actions
InitHistory ==
    [consecFails |-> 0,        \* failed completions since the last successful one
     lastGood    |-> NullStatus, \* the status made by the last successful completion
     resetFrom   |-> 0,        \* failureCount just before the last successful completion
     schedCalls  |-> 0,        \* attempts initiated by startPolling or by a timer
     starts      |-> 0,        \* startPolling calls that started the polling
     startedAt   |-> 0,        \* the clock at the last such call
     stopped     |-> FALSE,    \* stopPolling or the unmount cleanup ran, no start since
     effectSawState |-> FALSE, \* the last run of the props effect found the sketch state
     effectNoChange |-> FALSE, \* ... and derived the target that targetState already was
     triggeredAt |-> -1,       \* st.time (in frames) when the last transition was begun
     awaited |-> {},           \* attempts that a refresh() not yet returned is awaiting
     escaped |-> FALSE,        \* a fetchStatus() promise has rejected
     lastGoodAt |-> 0]         \* the clock at the last successful completion

InitCommon ==
    /\ lifecycle = "rendered"
    /\ now = 1      \* Date.now() is positive
    /\ status = NullStatus
    /\ statusFresh = FALSE
    /\ connectionState = defaultConnectionState
    /\ intervalIdRef = 0
    /\ isPollingRef = FALSE
    /\ isPolling = FALSE
    /\ renderedIsPolling = FALSE
    /\ timers = {}
    /\ inflight = {}
    /\ fetchCalls = 0
    /\ history = InitHistory
    /\ p5Ref = FALSE
    /\ setupPending = FALSE
    /\ looping = FALSE
    /\ stateRef = NullSketchState
    /\ effectConnected = TRUE
    /\ store = NoBody("absent")
    /\ calls = 0
    /\ lastCall = NoCall
    /\ updateRef = NullUpdateRef

\* App calls useStatusPolling(R2_PUBLIC_URL): the configuration is the default.
Init == hook = "app" /\ maxFailures = DefaultMaxFailures /\ InitCommon /\ bucketSet = TRUE

\* What a run of the props effect on sketch state st leaves in history h.
EffectSeen(h, st, p, stat, conn) ==
    LET saw == st.present /\ p
        new == NewTargetState(stat, conn)
    IN  [h EXCEPT !.effectSawState = saw,
                  !.effectNoChange = saw /\ new = st.targetState,
                  !.triggeredAt = IF saw /\ new # st.targetState THEN st.time ELSE @]

\* The effects of the first commit of App: HeartbeatCanvas creates the p5
\* instance, whose setup runs at once when the document is loaded (sync) and at
\* the window's load event otherwise; its props effect runs on the first props;
\* then useStatusPolling's effect calls startPolling.
MountEffects ==
    /\ hook \in {"app", "loops"}
    /\ lifecycle = "rendered"
    /\ lifecycle' = "mounted"
    /\ p5Ref' = TRUE
    /\ \E sync \in BOOLEAN :
          /\ setupPending' = ~sync
          /\ looping' = sync
          /\ stateRef' = PropsEffectBody(IF sync THEN InitialSketchState ELSE NullSketchState,
                                         TRUE, status, connectionState)
          /\ StartPollingAuto(EffectSeen(history,
                                         IF sync THEN InitialSketchState ELSE NullSketchState,
                                         TRUE, status, connectionState))
    /\ effectConnected' = connectionState.connected
    /\ statusFresh' = FALSE
    /\ UNCHANGED <<hook, maxFailures, now, status, connectionState,
                   isPolling, renderedIsPolling>>
    /\ UNCHANGED producerVars
    /\ UNCHANGED sketchVars

\* (mutant of WindowLoad: p.setup does not return when the container is gone)
WindowLoadWithoutContainer ==
    /\ setupPending
    /\ setupPending' = FALSE
    /\ looping' = TRUE
    /\ stateRef' = InitialSketchState
    /\ history' = [history EXCEPT !.triggeredAt = -1]
    /\ UNCHANGED <<hook, lifecycle, maxFailures, now, status, statusFresh, connectionState,
                   intervalIdRef, isPollingRef, isPolling, renderedIsPolling,
                   timers, inflight, fetchCalls, p5Ref, effectConnected>>
    /\ UNCHANGED producerVars
    /\ UNCHANGED sketchVars

\* p.setup, run by the window's load event. After the unmount containerRef
\* is null and p.setup returns before it makes the state; whether an instance
\* removed before its setup goes on to call p.draw is left open.
WindowLoad ==
    /\ setupPending
    /\ setupPending' = FALSE
    /\ looping' \in (IF lifecycle = "mounted" THEN {TRUE} ELSE BOOLEAN)
    /\ stateRef' = IF lifecycle = "mounted" THEN InitialSketchState ELSE stateRef
    /\ history' = IF lifecycle = "mounted" THEN [history EXCEPT !.triggeredAt = -1]
                                           ELSE history
    /\ UNCHANGED <<hook, lifecycle, maxFailures, now, status, statusFresh, connectionState,
                   intervalIdRef, isPollingRef, isPolling, renderedIsPolling,
                   timers, inflight, fetchCalls, p5Ref, effectConnected>>
    /\ UNCHANGED producerVars
    /\ UNCHANGED sketchVars

\* The props effect of HeartbeatCanvas, run after a render in which status or
\* connectionState.connected differs from the last run's.
PropsEffect ==
    /\ hook \in {"app", "canvas", "loops"}
    /\ lifecycle = "mounted"
    /\ statusFresh \/ effectConnected # connectionState.connected
    /\ effectConnected' = connectionState.connected
    /\ statusFresh' = FALSE
    /\ stateRef' = PropsEffectBody(stateRef, p5Ref, status, connectionState)
    /\ history' = EffectSeen(history, stateRef, p5Ref, status, connectionState)
    /\ UNCHANGED <<hook, lifecycle, maxFailures, now, status, connectionState,
                   intervalIdRef, isPollingRef, isPolling, renderedIsPolling,
                   timers, inflight, fetchCalls,
                   p5Ref, setupPending, looping>>
    /\ UNCHANGED producerVars
    /\ UNCHANGED sketchVars

\* one frame: p.draw, which returns at once when stateRef.current is null
\* (mutant of Draw: a frame is drawn only when no fetch is outstanding)
DrawAfterFetches ==
    /\ looping
    /\ inflight = {}
    /\ stateRef.time < FrameLimit
    /\ stateRef' = IF stateRef.present THEN DrawFrame(stateRef) ELSE stateRef
    /\ UNCHANGED <<pollerVars, p5Ref, setupPending, looping, effectConnected>>
    /\ UNCHANGED producerVars
    /\ UNCHANGED sketchVars

Draw ==
    /\ looping
    /\ stateRef.time < FrameLimit
    /\ stateRef' = IF stateRef.present THEN DrawFrame(stateRef) ELSE stateRef
    /\ UNCHANGED <<pollerVars, p5Ref, setupPending, looping, effectConnected>>
    /\ UNCHANGED producerVars
    /\ UNCHANGED sketchVars

\* (mutant of TimerCallbacks: a firing is skipped while an attempt is outstanding)
TimerCallbacksWhenIdle == IF inflight # {} THEN 0 ELSE Cardinality(timers)

\* The number of fetchStatus calls made when one interval has passed: one for
\* each armed timer.
TimerCallbacks == Cardinality(timers)

Tick ==
    /\ lifecycle # "rendered"
    /\ now < TimeLimit
    /\ now' = now + 1
    /\ CallFetch(TimerCallbacks)
    /\ history' = [history EXCEPT !.schedCalls = @ + TimerCallbacks]
    /\ UNCHANGED <<hook, lifecycle, maxFailures, status, statusFresh, connectionState,
                   intervalIdRef, isPollingRef, isPolling, renderedIsPolling,
                   timers, canvasVars>>
    /\ UNCHANGED producerVars
    /\ UNCHANGED sketchVars

\* ------------------------------------------------------------- useStatusPolling alone
\* The hook's caller passes any maxFailures.
InitHook == hook = "auto" /\ maxFailures \in 0..MaxMaxFailures /\ InitCommon /\ bucketSet = TRUE

\* the first commit of a component that only uses the hook: startPolling
MountHook ==
    /\ hook = "auto"
    /\ lifecycle = "rendered"
    /\ lifecycle' = "mounted"
    /\ StartPollingAuto(history)
    /\ UNCHANGED <<hook, maxFailures, now, status, statusFresh, connectionState,
                   isPolling, renderedIsPolling, canvasVars>>
    /\ UNCHANGED producerVars
    /\ UNCHANGED sketchVars

StartPolling ==
    /\ hook = "auto"
    /\ lifecycle = "mounted"
    /\ StartPollingAuto(history)
    /\ UNCHANGED <<hook, lifecycle, maxFailures, now, status, statusFresh, connectionState,
                   isPolling, renderedIsPolling, canvasVars>>
    /\ UNCHANGED producerVars
    /\ UNCHANGED sketchVars

\* (mutant of StopPolling: stopping puts the hook's state back to its defaults)
StopPollingResets ==
    /\ hook = "auto"
    /\ lifecycle = "mounted"
    /\ StopPollingAuto
    /\ status' = NullStatus
    /\ connectionState' = defaultConnectionState
    /\ UNCHANGED <<hook, lifecycle, maxFailures, now, statusFresh,
                   isPolling, renderedIsPolling, inflight, fetchCalls,
                   canvasVars>>
    /\ UNCHANGED producerVars
    /\ UNCHANGED sketchVars

StopPolling ==
    /\ hook = "auto"
    /\ lifecycle = "mounted"
    /\ StopPollingAuto
    /\ UNCHANGED <<hook, lifecycle, maxFailures, now, status, statusFresh, connectionState,
                   isPolling, renderedIsPolling, inflight, fetchCalls,
                   canvasVars>>
    /\ UNCHANGED producerVars
    /\ UNCHANGED sketchVars

\* refresh: await fetchStatus()
\* (mutant of Refresh: the timer is cleared as well)
RefreshStoppingSchedule ==
    /\ lifecycle = "mounted"
    /\ CallFetch(1)
    /\ history' = [history EXCEPT !.awaited = @ \cup {fetchCalls + 1}]
    /\ timers' = timers \ {intervalIdRef}
    /\ intervalIdRef' = 0
    /\ UNCHANGED <<hook, lifecycle, maxFailures, now, status, statusFresh, connectionState,
                   isPollingRef, isPolling, renderedIsPolling, canvasVars>>
    /\ UNCHANGED producerVars
    /\ UNCHANGED sketchVars

\* refresh(): await fetchStatus()
Refresh ==
    /\ lifecycle = "mounted"
    /\ CallFetch(1)
    /\ history' = [history EXCEPT !.awaited = @ \cup {fetchCalls + 1}]
    /\ UNCHANGED <<hook, lifecycle, maxFailures, now, status, statusFresh, connectionState,
                   intervalIdRef, isPollingRef, isPolling, renderedIsPolling,
                   timers, canvasVars>>
    /\ UNCHANGED producerVars
    /\ UNCHANGED sketchVars

\* the unmount cleanup of useStatusPolling
UnmountHook ==
    /\ hook = "auto"
    /\ lifecycle = "mounted"
    /\ lifecycle' = "unmounted"
    /\ StopPollingAuto
    /\ UNCHANGED <<hook, maxFailures, now, status, statusFresh, connectionState,
                   isPolling, renderedIsPolling, inflight, fetchCalls,
                   canvasVars>>
    /\ UNCHANGED producerVars
    /\ UNCHANGED sketchVars

NextHook ==
    \/ MountHook
    \/ StartPolling
    \/ StopPolling
    \/ Refresh
    \/ FetchCompletes
    \/ Tick
    \/ UnmountHook

SpecHook == InitHook /\ [][NextHook]_vars

\* The hook alone with what its scheduling gives: an armed timer keeps firing
\* (setInterval).  fetch(r2Url, ...) is called without a signal or a timeout,
\* so nothing makes an attempt complete.
SpecHookFair == SpecHook /\ WF_vars(Tick)

\* ------------------------------------------------------------- App
\* The cleanups of App's unmount: stopPolling, and the p5 instance is removed.
Unmount ==
    /\ hook \in {"app", "loops"}
    /\ lifecycle = "mounted"
    /\ lifecycle' = "unmounted"
    /\ StopPollingAuto
    /\ p5Ref' = FALSE
    /\ looping' = FALSE
    /\ stateRef' = NullSketchState
    /\ UNCHANGED <<hook, maxFailures, now, status, statusFresh, connectionState,
                   isPolling, renderedIsPolling, inflight, fetchCalls,
                   setupPending, effectConnected>>
    /\ UNCHANGED producerVars
    /\ UNCHANGED sketchVars

Next ==
    \/ MountEffects
    \/ WindowLoad
    \/ PropsEffect
    \/ Draw
    \/ FetchCompletes
    \/ Tick
    \/ Unmount

Spec == Init /\ [][Next]_vars

\* ------------------------------------------------------------- useManualStatusPolling alone
InitManual == hook = "manual" /\ maxFailures \in 0..MaxMaxFailures /\ InitCommon /\ bucketSet = TRUE

\* the first commit: the hook only registers its cleanup
MountManual ==
    /\ hook = "manual"
    /\ lifecycle = "rendered"
    /\ lifecycle' = "mounted"
    /\ UNCHANGED <<hook, maxFailures, now, status, statusFresh, connectionState,
                   intervalIdRef, isPollingRef, isPolling, renderedIsPolling,
                   timers, inflight, fetchCalls, history, canvasVars>>
    /\ UNCHANGED producerVars
    /\ UNCHANGED sketchVars

\* a render after setIsPolling: the callbacks are recreated over the new value
Rerender ==
    /\ hook = "manual"
    /\ lifecycle = "mounted"
    /\ renderedIsPolling # isPolling
    /\ renderedIsPolling' = isPolling
    /\ UNCHANGED <<hook, lifecycle, maxFailures, now, status, statusFresh, connectionState,
                   intervalIdRef, isPollingRef, isPolling,
                   timers, inflight, fetchCalls, history, canvasVars>>
    /\ UNCHANGED producerVars
    /\ UNCHANGED sketchVars

StartManual ==
    /\ hook = "manual"
    /\ lifecycle = "mounted"
    /\ StartPollingManual
    /\ UNCHANGED <<hook, lifecycle, maxFailures, now, status, statusFresh, connectionState,
                   isPollingRef, renderedIsPolling, canvasVars>>
    /\ UNCHANGED producerVars
    /\ UNCHANGED sketchVars

StopManual ==
    /\ hook = "manual"
    /\ lifecycle = "mounted"
    /\ StopPollingManual
    /\ UNCHANGED <<hook, lifecycle, maxFailures, now, status, statusFresh, connectionState,
                   isPollingRef, renderedIsPolling, inflight, fetchCalls,
                   canvasVars>>
    /\ UNCHANGED producerVars
    /\ UNCHANGED sketchVars

UnmountManual ==
    /\ hook = "manual"
    /\ lifecycle = "mounted"
    /\ lifecycle' = "unmounted"
    /\ CleanupManual
    /\ UNCHANGED <<hook, maxFailures, now, status, statusFresh, connectionState,
                   isPollingRef, renderedIsPolling, inflight, fetchCalls,
                   canvasVars>>
    /\ UNCHANGED producerVars
    /\ UNCHANGED sketchVars

NextManual ==
    \/ MountManual
    \/ Rerender
    \/ StartManual
    \/ StopManual
    \/ Refresh
    \/ FetchCompletes
    \/ Tick
    \/ UnmountManual

SpecManual == InitManual /\ [][NextManual]_vars

\* ------------------------------------------------------------- HeartbeatCanvas alone
\* The props a parent can pass: status null, busy or idle; connected or not.
CanvasStatuses == {NullStatus, NewStatus(DocBusy), NewStatus(DocIdle)}

CanvasConnections ==
    {defaultConnectionState,
     [connected |-> FALSE, lastSuccessTime |-> 0, failureCount |-> DefaultMaxFailures]}

InitCanvas ==
    /\ hook = "canvas"
    /\ maxFailures = DefaultMaxFailures
    /\ InitCommon
    /\ bucketSet = TRUE

\* the first commit of HeartbeatCanvas with the props of its first render: the
\* mount effect, then the props effect
MountCanvas ==
    /\ hook = "canvas"
    /\ lifecycle = "rendered"
    /\ lifecycle' = "mounted"
    /\ p5Ref' = TRUE
    /\ \E stat \in CanvasStatuses : \E conn \in CanvasConnections : \E sync \in BOOLEAN :
          LET st == IF sync THEN InitialSketchState ELSE NullSketchState
          IN  /\ status' = stat
              /\ connectionState' = conn
              /\ setupPending' = ~sync
              /\ looping' = sync
              /\ stateRef' = PropsEffectBody(st, TRUE, stat, conn)
              /\ history' = EffectSeen(history, st, TRUE, stat, conn)
              /\ effectConnected' = conn.connected
    /\ statusFresh' = FALSE
    /\ UNCHANGED <<hook, maxFailures, now, intervalIdRef, isPollingRef, isPolling,
                   renderedIsPolling, timers, inflight, fetchCalls>>
    /\ UNCHANGED producerVars
    /\ UNCHANGED sketchVars

\* the parent renders HeartbeatCanvas with other props
SetProps ==
    /\ hook = "canvas"
    /\ lifecycle = "mounted"
    /\ stateRef.time < MaxFrames
    /\ \E stat \in CanvasStatuses : \E conn \in CanvasConnections :
          /\ <<stat, conn>> # <<status, connectionState>>
          /\ status' = stat
          /\ connectionState' = conn
          /\ statusFresh' = (statusFresh \/ stat # status)
    /\ UNCHANGED <<hook, lifecycle, maxFailures, now, intervalIdRef, isPollingRef,
                   isPolling, renderedIsPolling, timers, inflight, fetchCalls,
                   history, canvasVars>>
    /\ UNCHANGED producerVars
    /\ UNCHANGED sketchVars

\* HeartbeatCanvas unmounts: the cleanup of the mount effect
UnmountCanvas ==
    /\ hook = "canvas"
    /\ lifecycle = "mounted"
    /\ lifecycle' = "unmounted"
    /\ p5Ref' = FALSE
    /\ looping' = FALSE
    /\ stateRef' = NullSketchState
    /\ UNCHANGED <<hook, maxFailures, now, status, statusFresh, connectionState,
                   intervalIdRef, isPollingRef, isPolling, renderedIsPolling,
                   timers, inflight, fetchCalls, history,
                   setupPending, effectConnected>>
    /\ UNCHANGED producerVars
    /\ UNCHANGED sketchVars

\* p.windowResized: the canvas and the recorded size follow the window
WindowResized ==
    /\ hook = "canvas"
    /\ lifecycle = "mounted"
    /\ stateRef.present
    /\ stateRef.time < MaxFrames
    /\ \E size \in WindowSizes :
          /\ size # <<stateRef.width, stateRef.height>>
          /\ stateRef' = [stateRef EXCEPT !.width = size[1], !.height = size[2]]
    /\ UNCHANGED <<pollerVars, p5Ref, setupPending, looping, effectConnected>>
    /\ UNCHANGED producerVars
    /\ UNCHANGED sketchVars

NextCanvas ==
    \/ MountCanvas
    \/ WindowResized
    \/ WindowLoad
    \/ SetProps
    \/ PropsEffect
    \/ Draw
    \/ UnmountCanvas

SpecCanvas == InitCanvas /\ [][NextCanvas]_vars

\* ------------------------------------------------------------- the producers alone
InitProducer ==
    /\ hook = "producer"
    /\ maxFailures = DefaultMaxFailures
    /\ InitCommon
    /\ bucketSet \in BOOLEAN

\* One call of a producer entry point, awaited to its end: fn names it, arg is
\* its argument, ended is what it did with the store answering sendResult.
Call(fn, arg, sendResult, ended) ==
    /\ hook = "producer"
    /\ calls < MaxEvents
    /\ calls' = calls + 1
    /\ lastCall' = [fn |-> fn, arg |-> arg, sendResult |-> sendResult, ended |-> ended]
    /\ store' = StoreAfter(store, ended, sendResult)
    /\ UNCHANGED <<bucketSet, pollerVars, canvasVars>>
    /\ UNCHANGED sketchVars

\* OpenClaw calls the command handler with an event
HandlerCall ==
    \E event \in HandlerEvents : \E sendResult \in SendResults :
        Call("handler", event, sendResult, handler(event, bucketSet, sendResult))

\* handler.ts uploadStatus called on its own
HandlerUploadCall ==
    \E payload \in StatusPayloads : \E sendResult \in SendResults :
        Call("uploadStatus", payload, sendResult,
             HandlerUploadStatus(payload, bucketSet, sendResult))

\* R2StatusHook.handleEvent(event)
HookCall ==
    \E event \in HookEvents : \E sendResult \in SendResults :
        Call("handleEvent", event, sendResult, handleEvent(event, sendResult))

\* R2Uploader.uploadStatus(payload)
UploaderCall ==
    \E payload \in HookPayloads : \E sendResult \in SendResults :
        Call("R2Uploader.uploadStatus", payload, sendResult,
             UploaderUploadStatus(payload, sendResult))

NextProducer ==
    \/ HandlerCall
    \/ HandlerUploadCall
    \/ HookCall
    \/ UploaderCall

SpecProducer == InitProducer /\ [][NextProducer]_vars

\* ------------------------------------------------------------- the two loops of App
\* App with the frame loop run for MaxCanvasFrames frames.  The poller and
\* the props effect act only before MaxFrames frames are drawn; an attempt
\* outstanding then stays outstanding.
InitLoops ==
    /\ hook = "loops"
    /\ maxFailures = DefaultMaxFailures
    /\ InitCommon
    /\ bucketSet = TRUE

LoopsTick == stateRef.time < MaxFrames /\ Tick

LoopsFetchCompletes == stateRef.time < MaxFrames /\ FetchCompletes

LoopsPropsEffect == stateRef.time < MaxFrames /\ PropsEffect

NextLoops ==
    \/ MountEffects
    \/ WindowLoad
    \/ LoopsPropsEffect
    \/ Draw
    \/ LoopsFetchCompletes
    \/ LoopsTick
    \/ Unmount

SpecLoops == InitLoops /\ [][NextLoops]_vars

\* p5 calls p.draw again on every animation frame while the instance is looping
SpecLoopsFair == SpecLoops /\ WF_vars(Draw)

\* ------------------------------------------------------------- the react-p5 variant alone
InitSketch ==
    /\ hook = "sketch"
    /\ maxFailures = DefaultMaxFailures
    /\ InitCommon
    /\ bucketSet = TRUE

\* What an error thrown by the update effect does: React unmounts the tree
\* and react-p5 removes its instance; otherwise the component stays mounted.
AfterSketchEffect(ref) ==
    IF SketchEffectThrows(ref)
    THEN lifecycle' = "unmounted" /\ p5Ref' = FALSE /\ looping' = FALSE
    ELSE lifecycle' = "mounted" /\ p5Ref' = TRUE /\ looping' = ref.present

\* The first commit of the variant: react-p5 makes the p5 instance, whose
\* setup (createHeartbeatSketch, updateSketchStatus) runs at once when the
\* document is loaded; then the update effect runs on the first props.
MountSketch ==
    /\ hook = "sketch"
    /\ lifecycle = "rendered"
    /\ \E stat \in CanvasStatuses : \E conn \in CanvasConnections : \E sync \in BOOLEAN :
          LET st  == IF sync THEN InitialSketchState ELSE NullSketchState
              ref == IF sync THEN updateSketchStatus(stat, conn) ELSE NullUpdateRef
          IN  /\ status' = stat
              /\ connectionState' = conn
              /\ setupPending' = ~sync
              /\ updateRef' = ref
              /\ stateRef' = SketchEffectBody(st, ref, stat, conn)
              /\ effectConnected' = conn.connected
              /\ AfterSketchEffect(ref)
    /\ statusFresh' = FALSE
    /\ UNCHANGED <<hook, maxFailures, now, intervalIdRef, isPollingRef, isPolling,
                   renderedIsPolling, timers, inflight, fetchCalls, history, producerVars>>

\* setup, run by the window's load event, over the props of the last render
SketchLoad ==
    /\ hook = "sketch"
    /\ lifecycle = "mounted"
    /\ setupPending
    /\ setupPending' = FALSE
    /\ looping' = TRUE
    /\ stateRef' = InitialSketchState
    /\ updateRef' = updateSketchStatus(status, connectionState)
    /\ UNCHANGED <<pollerVars, p5Ref, effectConnected, producerVars>>

\* the parent renders the variant with other props
SketchSetProps ==
    /\ hook = "sketch"
    /\ lifecycle = "mounted"
    /\ \E stat \in CanvasStatuses : \E conn \in CanvasConnections :
          /\ <<stat, conn>> # <<status, connectionState>>
          /\ status' = stat
          /\ connectionState' = conn
          /\ statusFresh' = (statusFresh \/ stat # status)
    /\ UNCHANGED <<hook, lifecycle, maxFailures, now, intervalIdRef, isPollingRef,
                   isPolling, renderedIsPolling, timers, inflight, fetchCalls,
                   history, canvasVars, producerVars, sketchVars>>

\* the update effect, run after a render in which status or
\* connectionState.connected differs from the last run's
SketchPropsEffect ==
    /\ hook = "sketch"
    /\ lifecycle = "mounted"
    /\ statusFresh \/ effectConnected # connectionState.connected
    /\ effectConnected' = connectionState.connected
    /\ statusFresh' = FALSE
    /\ stateRef' = SketchEffectBody(stateRef, updateRef, status, connectionState)
    /\ AfterSketchEffect(updateRef)
    /\ UNCHANGED <<hook, maxFailures, now, status, connectionState,
                   intervalIdRef, isPollingRef, isPolling, renderedIsPolling,
                   timers, inflight, fetchCalls, history,
                   setupPending, producerVars, sketchVars>>

NextSketch ==
    \/ MountSketch
    \/ SketchLoad
    \/ SketchSetProps
    \/ SketchPropsEffect
    \/ Draw

SpecSketch == InitSketch /\ [][NextSketch]_vars

\* ------------------------------------------------------------- properties
Mounted == lifecycle = "mounted"

\* the props effect has run on the status and connectionState.connected that
\* the hook now holds, and found the sketch state when it ran
EffectApplied ==
    /\ Mounted
    /\ stateRef.present
    /\ ~statusFresh
    /\ effectConnected = connectionState.connected
    /\ history.effectSawState

\* C1 (failure monotonicity): with maxFailures >= 1, after N failed attempts
\* in a row since failureCount was 0, failureCount is N and connected is
\* N < maxFailures.
C1_FailureMonotonicity ==
    maxFailures >= 1 =>
        /\ connectionState.failureCount = history.consecFails
        /\ connectionState.connected = (history.consecFails < maxFailures)

C1_Witness ==
    /\ maxFailures = 2
    /\ history.consecFails = 3
    /\ connectionState.failureCount = 3
    /\ ~connectionState.connected

\* C2 (success resets): a successful fetch, from any connection state, makes
\* connectionState {connected: true, lastSuccessTime: now, failureCount: 0}.
C2_SuccessResets ==
    [][\A a \in inflight \ inflight' :
          \/ connectionState' = [connected |-> TRUE, lastSuccessTime |-> now,
                                 failureCount |-> 0]
          \/ ~(Mounted /\ \E r \in {DocBusy, DocIdle} : Complete(a, r))]_vars

C2_Witness ==
    /\ maxFailures = 1
    /\ history.resetFrom = 2
    /\ history.consecFails = 0
    /\ connectionState = [connected |-> TRUE, lastSuccessTime |-> now, failureCount |-> 0]

\* C3 (status durability): the exposed status is the one stored by the last
\* successful fetch, whatever number of failed attempts followed it.
C3_StatusDurability == status = history.lastGood

C3_Witness ==
    /\ history.consecFails >= 2
    /\ status.present
    /\ status.busy
    /\ status.taskId = JStr("task-1")

\* C4 as stated: connected == (failureCount < maxFailures) in every state, for
\* every maxFailures >= 0.
C4_ConnectedIffBelowThresholdFromZero ==
    connectionState.connected = (connectionState.failureCount < maxFailures)

\* C4 as amended: connected == (failureCount < maxFailures) in every state, for
\* every maxFailures >= 1.
C4_ConnectedIffBelowThreshold ==
    maxFailures >= 1 =>
        connectionState.connected = (connectionState.failureCount < maxFailures)

C4_Witness ==
    /\ maxFailures >= 1
    /\ history.resetFrom >= maxFailures
    /\ connectionState.failureCount >= maxFailures
    /\ ~connectionState.connected

FailureKinds ==
    { NoBody("network"), NoBody("http"), NoBody("parse"), DocBadBusy, DocBadTs }

\* C5 (failure kinds): a transport error, a response that is not ok, a body that
\* is not JSON and a body that fails the validation all change the state in the
\* same way: failureCount + 1, connected = (failureCount + 1 < maxFailures),
\* lastSuccessTime and status as they were.
C5_FailureKindsAlike ==
    [][\A a \in inflight \ inflight' :
          \/ /\ connectionState' =
                     [connected |-> connectionState.failureCount + 1 < maxFailures,
                      lastSuccessTime |-> connectionState.lastSuccessTime,
                      failureCount |-> connectionState.failureCount + 1]
             /\ status' = status
          \/ ~(Mounted /\ \E r \in FailureKinds : Complete(a, r))]_vars

C5_Witness ==
    /\ maxFailures = 2
    /\ status.present
    /\ connectionState.lastSuccessTime = 1
    /\ now = 2
    /\ connectionState.failureCount = 2
    /\ history.consecFails = 2
    /\ ~connectionState.connected

C7_DisconnectSupersedesBusy ==
    (/\ maxFailures >= 1
     /\ Mounted
     /\ stateRef.present
     /\ ~statusFresh
     /\ effectConnected = connectionState.connected) =>
        /\ (status.present /\ status.busy /\ history.consecFails >= maxFailures)
               => stateRef.targetState = "disconnected"
        /\ (status.present /\ history.consecFails = 0 /\ history.resetFrom >= maxFailures)
               => stateRef.targetState = IF status.busy THEN "busy" ELSE "idle"

\* C8 (fixed rate): polling started once and not stopped has initiated K + 1
\* attempts of the schedule when K intervals have passed, whatever became of
\* the attempts.
C8_FixedRate ==
    (Mounted /\ history.starts = 1 /\ ~history.stopped) =>
        /\ history.schedCalls = (now - history.startedAt) + 1
        /\ fetchCalls >= history.schedCalls

C8_Witness ==
    /\ Mounted
    /\ history.starts = 1
    /\ ~history.stopped
    /\ now - history.startedAt = 2
    /\ history.schedCalls = 3
    /\ inflight # {}
    /\ connectionState.failureCount >= 1

\* C9 (teardown): while stopPolling (or the unmount cleanup) was the last call,
\* no attempt is initiated by the schedule.
C9_NoFetchAfterStop ==
    [][(history.stopped /\ history.stopped') =>
           history.schedCalls' = history.schedCalls]_vars

\* the colour and the amplitude that belong to a target
ConstantsOf(target) ==
    CASE target = "idle" -> <<Color(76, 175, 80), 30 * Unit>>
      [] target = "busy" -> <<Color(255, 165, 0), 40 * Unit>>
      [] target = "disconnected" -> <<Color(158, 158, 158), 20 * Unit>>

\* C10 (transition trigger): when the props effect derives a target that is not
\* targetState, currentState becomes the old targetState, targetState the new
\* target, transitionProgress 0 and targetColor, targetAmplitude the constants
\* of the new target; the rest of the sketch state is as it was.
C10_TransitionTrigger ==
    [][(/\ PropsEffect
        /\ stateRef.present
        /\ NewTargetState(status, connectionState) # stateRef.targetState) =>
           LET new == NewTargetState(status, connectionState)
           IN  stateRef' = [stateRef EXCEPT
                               !.currentState = stateRef.targetState,
                               !.targetState = new,
                               !.transitionProgress = 0,
                               !.targetColor = ConstantsOf(new)[1],
                               !.targetAmplitude = ConstantsOf(new)[2]]]_vars

\* a transition begun while the one before it was in flight
C10_Witness ==
    /\ stateRef.present
    /\ stateRef.transitionProgress = 0
    /\ stateRef.currentState = "busy"
    /\ stateRef.targetState = "disconnected"
    /\ stateRef.targetColor = Color(158, 158, 158)
    /\ stateRef.targetAmplitude = 20 * Unit
    /\ stateRef.currentColor \notin {IdleColor, BusyColor, DisconnectedColor}


\* C11 (no change, no transition): a run of the props effect that derives the
\* target that targetState already is leaves the whole sketch state as it was,
\* a transition in flight included.
C11_SameTargetChangesNothing ==
    [][(/\ PropsEffect
        /\ stateRef.present
        /\ NewTargetState(status, connectionState) = stateRef.targetState) =>
           stateRef' = stateRef]_vars

\* the busy status delivered again while the transition to busy is in flight
C11_Witness ==
    /\ history.effectNoChange
    /\ status.present
    /\ status.busy
    /\ stateRef.targetState = "busy"
    /\ stateRef.currentState = "idle"
    /\ stateRef.transitionProgress > 0
    /\ stateRef.transitionProgress < Rate
    /\ connectionState.lastSuccessTime >= 2


\* C12 (transition timing): n frames after the props effect began the last
\* transition, transitionProgress is n/60 and currentState is not targetState
\* while n < 60; from n = 60 on transitionProgress is 1 and currentState is
\* targetState.
C12_TransitionTiming ==
    (stateRef.present /\ history.triggeredAt >= 0) =>
        LET n == stateRef.time - history.triggeredAt
        IN  /\ n < Rate => /\ stateRef.transitionProgress = n
                           /\ stateRef.currentState # stateRef.targetState
            /\ n >= Rate => /\ stateRef.transitionProgress = Rate
                            /\ stateRef.currentState = stateRef.targetState

\* a transition begun at the second frame, at the frame that completes it
C12_Witness ==
    /\ stateRef.present
    /\ history.triggeredAt = 2
    /\ stateRef.time = history.triggeredAt + Rate
    /\ stateRef.transitionProgress = Rate
    /\ stateRef.currentState = "disconnected"
    /\ stateRef.targetState = "disconnected"


\* the responses whose body parses to an object
ObjectDocs == {r \in Responses : r.kind = "object"}

\* C13 (validation): a fetched document is a success exactly when its busy is
\* a boolean and its ts is a number, whatever its other fields are, and the
\* status stored then carries the document's sessionKey and source when they
\* are strings.
C13_AcceptedIffBusyAndTs ==
    [][\A a \in inflight : \A r \in ObjectDocs :
          (Mounted /\ Complete(a, r)) =>
              /\ (connectionState'.failureCount = 0) <=>
                     (TypeOf(r.busy) = "boolean" /\ TypeOf(r.ts) = "number")
              /\ (connectionState'.failureCount = 0 /\ TypeOf(r.sessionKey) = "string")
                     => /\ "sessionKey" \in DOMAIN status'
                        /\ status'.sessionKey = r.sessionKey.s
              /\ (connectionState'.failureCount = 0 /\ TypeOf(r.source) = "string")
                     => /\ "source" \in DOMAIN status'
                        /\ status'.source = r.source.s]_vars


\* C14 (round trip): every document the command handler uploads is parsed by
\* the poller as a success, and the status stored equals the payload field by
\* field.
C14_RoundTrip ==
    [][\A a \in inflight : \A payload \in StatusPayloads :
          (Mounted /\ Complete(a, UploadedDoc(payload))) =>
              /\ connectionState'.failureCount = 0
              /\ status'.present
              /\ status'.busy = payload.busy
              /\ status'.ts = payload.ts
              /\ "sessionKey" \in DOMAIN status'
              /\ status'.sessionKey = payload.sessionKey
              /\ "source" \in DOMAIN status'
              /\ JStr(status'.source) = payload.source]_vars


\* C15 (start is idempotent): startPolling called while a timer armed by an
\* earlier startPolling is still held initiates no fetch attempt and arms no
\* timer, for useStatusPolling and for useManualStatusPolling.
C15_StartIdempotent ==
    [][((StartPolling \/ StartManual) /\ intervalIdRef # 0) =>
           /\ fetchCalls' = fetchCalls
           /\ inflight' = inflight
           /\ timers' = timers]_vars


\* C16 (stop is idempotent and safe): stopPolling, called in any state, leaves
\* no timer armed and the poller stopped, and changes neither status nor
\* connectionState.
C16_StopSafe ==
    [][(StopPolling \/ StopManual) =>
           /\ timers' = {}
           /\ intervalIdRef' = 0
           /\ ~isPollingRef'
           /\ ~isPolling'
           /\ status' = status
           /\ connectionState' = connectionState]_vars

\* C17 (refresh): refresh() initiates one fetch attempt and leaves the timer,
\* the schedule's count and the clock as they were; it returns when that
\* attempt completes, not before.
C17_RefreshOutsideSchedule ==
    [][/\ Refresh =>
              /\ fetchCalls' = fetchCalls + 1
              /\ inflight' = inflight \cup {fetchCalls + 1}
              /\ (fetchCalls + 1) \in history'.awaited
              /\ timers' = timers
              /\ intervalIdRef' = intervalIdRef
              /\ isPollingRef' = isPollingRef
              /\ isPolling' = isPolling
              /\ history'.schedCalls = history.schedCalls
              /\ history'.startedAt = history.startedAt
              /\ now' = now
       /\ \A a \in history.awaited : (a \in history'.awaited) <=> (a \in inflight')]_vars

\* a refresh made between two firings of the timer, its attempt outstanding
\* when the second firing comes
C17_Witness ==
    /\ Mounted
    /\ history.starts = 1
    /\ ~history.stopped
    /\ now - history.startedAt = 1
    /\ history.schedCalls = 2
    /\ fetchCalls = 3
    /\ 2 \in history.awaited
    /\ 2 \in inflight


\* C18 (no error propagates): whatever an attempt meets, the promise of
\* fetchStatus never rejects, so startPolling and refresh end normally (a
\* refresh waits for no attempt that has ended), and failureCount counts every
\* response in a row that made the try block throw, a null body included.
C18_NoErrorPropagates ==
    /\ ~history.escaped
    /\ history.awaited \subseteq inflight
    /\ connectionState.failureCount = history.consecFails

\* the attempt of startPolling and the attempt of a refresh have both failed
\* and the refresh has returned
C18_Witness ==
    /\ Mounted
    /\ ~history.escaped
    /\ history.starts = 1
    /\ history.schedCalls = 1
    /\ fetchCalls = 2
    /\ inflight = {}
    /\ history.awaited = {}
    /\ connectionState.failureCount = 2


\* C19 (easing): at the progress k/Rate that a frame has just eased with, the
\* easing function is 0 at progress 0, one half at progress one half, 1 at
\* progress 1, within [0, 1], and non-decreasing over the progress values up
\* to it.
C19_EaseEndpointsMonotone ==
    stateRef.present =>
        LET k == stateRef.transitionProgress
        IN  /\ Eased(k) \in 0..EaseDen
            /\ k = 0 => Eased(k) = 0
            /\ 2 * k = Rate => 2 * Eased(k) = EaseDen
            /\ k = Rate => Eased(k) = EaseDen
            /\ \A j \in 0..(k - 1) : Eased(j) <= Eased(j + 1)

\* a transition begun after setup has been drawn for all of its Rate frames,
\* passing through every progress value
C19_Witness ==
    /\ stateRef.present
    /\ history.triggeredAt = 1
    /\ stateRef.time = history.triggeredAt + Rate
    /\ stateRef.transitionProgress = Rate
    /\ stateRef.currentAmplitude = stateRef.targetAmplitude


\* C20 (stopped animator): once the component is unmounted the sketch state
\* is gone and stays gone, so that no call of p.draw, no late run of p.setup
\* and no poll result arriving afterwards advances or draws anything.
C20_NothingAfterUnmount ==
    lifecycle = "unmounted" => stateRef = NullSketchState /\ ~p5Ref

\* unmounted before the window's load event; the event has come since, the
\* removed instance calls p.draw, and the attempts then in flight have ended
C20_Witness ==
    /\ lifecycle = "unmounted"
    /\ ~setupPending
    /\ looping
    /\ fetchCalls >= 1
    /\ inflight = {}
    /\ ~stateRef.present

\* C21 (manual polling): while useManualStatusPolling is mounted, nothing is
\* scheduled before the first startPolling (no attempt of the schedule, no
\* timer), and isPolling is true exactly when a polling timer is armed.
C21_IsPollingIffArmed ==
    (hook = "manual" /\ Mounted) =>
        /\ history.starts = 0 => (history.schedCalls = 0 /\ timers = {})
        /\ isPolling <=> (timers # {})

\* What a call of the command handler must have done if it uploads exactly on
\* command events: one PutObject of key status.json whose busy is
\* (action = "new") for a command event, nothing for any other event.
HandlerUploadedAsMapped ==
    LET event == lastCall.arg
        command == lastCall.ended.command
    IN  /\ command.sent <=> (event.type = "command")
        /\ command.sent =>
               /\ command.key = "status.json"
               /\ command.body.busy = JBool(event.action = "new")

\* C22 as stated (event mapping): the handler uploads exactly when the event
\* type is 'command', with busy true iff the action is 'new', to status.json.
C22_UploadsExactlyOnCommand ==
    lastCall.fn = "handler" => HandlerUploadedAsMapped

\* C22 (event mapping), amended: when R2_BUCKET is set the handler uploads
\* exactly when the event type is 'command', with busy true iff the action is
\* 'new', to status.json; when R2_BUCKET is not set it uploads nothing.
C22_UploadsOnCommandWhenBucketSet ==
    lastCall.fn = "handler" =>
        IF bucketSet THEN HandlerUploadedAsMapped ELSE ~lastCall.ended.command.sent

\* a command event with an action the handler does not know has been uploaded
\* as busy false
C22_Witness ==
    /\ lastCall.fn = "handler"
    /\ bucketSet
    /\ lastCall.arg.type = "command"
    /\ lastCall.arg.action = "unknown"
    /\ lastCall.ended.command.sent
    /\ lastCall.ended.command.body.busy = JBool(FALSE)
    /\ store = lastCall.ended.command.body

\* C23 (upload failures stay inside): a call of the command handler, of its
\* uploadStatus, or of R2StatusHook's handlers ends resolved whatever the
\* store answers, and uploadStatus sends nothing when R2_BUCKET is not set.
C23_UploadFailureNotPropagated ==
    /\ lastCall.fn \in {"handler", "uploadStatus", "handleEvent"} =>
           lastCall.ended.outcome = "resolved"
    /\ (lastCall.fn = "uploadStatus" /\ ~bucketSet) => ~lastCall.ended.command.sent

\* uploadStatus has sent its command, the store has rejected it, and the call
\* has resolved leaving the bucket as it was
C23_Witness ==
    /\ lastCall.fn = "uploadStatus"
    /\ bucketSet
    /\ lastCall.ended.command.sent
    /\ lastCall.sendResult = "reject"
    /\ lastCall.ended.outcome = "resolved"
    /\ calls = 1
    /\ store = NoBody("absent")

\* C24 (R2StatusHook event mapping): handleEvent uploads for a model_call
\* event a payload with busy true, for a complete event one with busy false,
\* each with the event's model and timestamp, and uploads nothing for an
\* event of any other type.
C24_HandleEventMapping ==
    lastCall.fn = "handleEvent" =>
        LET event == lastCall.arg
            command == lastCall.ended.command
        IN  /\ command.sent <=> (event.type \in {"model_call", "complete"})
            /\ command.sent =>
                   /\ command.body.busy = JBool(event.type = "model_call")
                   /\ command.body.model = JStr(event.model)
                   /\ command.body.ts = JNum(event.timestamp)

\* a complete event has been uploaded as busy false and is what the bucket holds
C24_Witness ==
    /\ lastCall.fn = "handleEvent"
    /\ lastCall.arg.type = "complete"
    /\ lastCall.arg.timestamp = 8
    /\ lastCall.sendResult = "ok"
    /\ lastCall.ended.command.body.busy = JBool(FALSE)
    /\ lastCall.ended.command.body.ts = JNum(8)
    /\ store = lastCall.ended.command.body

\* C25 (uploader errors): R2Uploader.uploadStatus rejects with an UploadError
\* whose cause is the store's error when the send is rejected, resolves when
\* it is not, and ends in no other way.
C25_UploaderRejectsWithUploadError ==
    lastCall.fn = "R2Uploader.uploadStatus" =>
        /\ lastCall.ended.outcome \in {"resolved", "UploadError"}
        /\ lastCall.sendResult = "reject" =>
               (lastCall.ended.outcome = "UploadError" /\ lastCall.ended.cause = "send")
        /\ lastCall.sendResult = "ok" => lastCall.ended.outcome = "resolved"

\* a second upload was rejected by the store after a first one went through:
\* the call rejected with UploadError and the bucket keeps the first document
C25_Witness ==
    /\ lastCall.fn = "R2Uploader.uploadStatus"
    /\ calls = 2
    /\ lastCall.sendResult = "reject"
    /\ lastCall.ended.outcome = "UploadError"
    /\ lastCall.ended.command.sent
    /\ store.kind = "object"
    /\ store # lastCall.ended.command.body

\* An attempt initiated later than the in-flight attempt a has succeeded:
\* every attempt initiated before a is still in flight, some attempt initiated
\* after a has completed, and the last completion was a successful one.
NewerSucceeded(a) ==
    /\ a \in inflight
    /\ (1..(a - 1)) \subseteq inflight
    /\ \E b \in (a + 1)..fetchCalls : b \notin inflight
    /\ history.consecFails = 0
    /\ status.present

\* C26 (freshest status under overlap): when an attempt succeeds after an
\* attempt initiated later than it has already succeeded, the exposed status
\* stays the one of the later attempt, so that once all have completed the
\* status is that of the most recently initiated successful attempt.
C26_NewestInitiatedWins ==
    [][\A a \in inflight \ inflight' : \A r \in {DocBusy, DocIdle} :
          (Mounted /\ NewerSucceeded(a) /\ Complete(a, r)) =>
              status' = status]_vars

C28_HungAttemptEventuallyFails ==
    \A a \in 1..MaxHookAttempts : (a \in inflight) ~> (a \notin inflight)

\* C29 (no update lost): once the props effect has run on the latest status
\* and connectionState.connected, whenever in the component's life they came,
\* the sketch state's targetState is the target derived from them.
C29_NoUpdateLost ==
    (/\ Mounted
     /\ stateRef.present
     /\ ~statusFresh
     /\ effectConnected = connectionState.connected) =>
        stateRef.targetState = NewTargetState(status, connectionState)

\* C30 (sketch-module variant): a run of the update effect that has the
\* update functions (updateStatus(status), then updateConnection(connected))
\* leaves targetState equal to the target derived from (status, connected),
\* and changes nothing when that target is the targetState held before.
C30_SketchUpdateDerivesTarget ==
    [][(updateRef.present /\ SketchPropsEffect) =>
          LET new == NewTargetState(status, connectionState)
          IN  /\ stateRef'.targetState = new
              /\ new = stateRef.targetState => stateRef' = stateRef]_vars

\* C31 (progress range, rest on the target): in every animator state
\* transitionProgress lies in [0, 1], and when it is 1 currentState is
\* targetState, currentColor is targetColor and currentAmplitude is
\* targetAmplitude.
C31_ProgressOneIsOnTarget ==
    stateRef.present =>
        /\ stateRef.transitionProgress \in 0..Rate
        /\ stateRef.transitionProgress = Rate =>
               /\ stateRef.currentState = stateRef.targetState
               /\ stateRef.currentColor = stateRef.targetColor
               /\ stateRef.currentAmplitude = stateRef.targetAmplitude

\* a transition to busy, begun after the first frame, has run to its end
C31_Witness ==
    /\ stateRef.present
    /\ stateRef.time > Rate
    /\ stateRef.transitionProgress = Rate
    /\ stateRef.currentState = "busy"
    /\ stateRef.currentColor = BusyColor
    /\ stateRef.currentAmplitude = BusyAmplitude

\* C32 (one colour and amplitude per target): in every animator state
\* targetColor and targetAmplitude are the constants of targetState: idle
\* (76, 175, 80) and 30, busy (255, 165, 0) and 40, disconnected
\* (158, 158, 158) and 20.
C32_TargetConstants ==
    stateRef.present =>
        /\ stateRef.targetState \in {"idle", "busy", "disconnected"}
        /\ stateRef.targetState = "idle" =>
               /\ stateRef.targetColor = Color(76, 175, 80)
               /\ stateRef.targetAmplitude = 30 * Unit
        /\ stateRef.targetState = "busy" =>
               /\ stateRef.targetColor = Color(255, 165, 0)
               /\ stateRef.targetAmplitude = 40 * Unit
        /\ stateRef.targetState = "disconnected" =>
               /\ stateRef.targetColor = Color(158, 158, 158)
               /\ stateRef.targetAmplitude = 20 * Unit

\* frames drawn, a transition to busy retargeted to disconnected while under way
C32_Witness ==
    /\ stateRef.present
    /\ stateRef.time > 0
    /\ stateRef.currentState = "busy"
    /\ stateRef.targetState = "disconnected"
    /\ stateRef.transitionProgress \in 1..(Rate - 1)
    /\ stateRef.targetAmplitude = DisconnectedAmplitude

\* C33 (phase and time): every frame adds the fixed increment to phase and to
\* time, in a transition or not, and no other step on a constructed state (an
\* input update, the beginning of a transition, a resize) changes either.
C33_PhaseAndTimeByFramesOnly ==
    [][(stateRef.present /\ stateRef'.present) =>
          IF Draw
          THEN /\ stateRef'.phase = stateRef.phase + 1
               /\ stateRef'.time = stateRef.time + 1
          ELSE /\ stateRef'.phase = stateRef.phase
               /\ stateRef'.time = stateRef.time]_vars

\* frames drawn at rest and in a transition that began after a resize
C33_Witness ==
    /\ stateRef.present
    /\ stateRef.width = 800
    /\ stateRef.phase = MaxFrames + 1
    /\ stateRef.time = MaxFrames + 1
    /\ stateRef.targetState = "busy"
    /\ stateRef.transitionProgress = 2

\* C34 (initial poller state): while no fetch attempt has completed, status
\* is absent and connectionState is {connected: true, lastSuccessTime: 0,
\* failureCount: 0}; lastSuccessTime is 0 while no attempt has succeeded, and
\* is always the clock of the last successful completion, so that no failed
\* attempt changes it.
C34_InitialStateAndLastSuccessTime ==
    /\ inflight = 1..fetchCalls =>
           /\ status = NullStatus
           /\ connectionState = [connected |-> TRUE, lastSuccessTime |-> 0, failureCount |-> 0]
    /\ history.lastGood = NullStatus => connectionState.lastSuccessTime = 0
    /\ connectionState.lastSuccessTime = history.lastGoodAt

\* failures after a success, at a later clock than the success
C34_Witness ==
    /\ Mounted
    /\ connectionState.lastSuccessTime = 1
    /\ now = 3
    /\ connectionState.failureCount = 2
    /\ inflight = {}

\* C35 (the frame loop never waits on the poller): whatever the state of the
\* poller, with fetch attempts outstanding or not, the next frame is enabled
\* while the sketch is looping, and a transition under way runs to its end
\* (unless a later update replaces it or the component is unmounted) though
\* outstanding attempts never complete.
C35_FramesNeverWait ==
    /\ []((Mounted /\ stateRef.present /\ stateRef.time < FrameLimit) => ENABLED Draw)
    /\ \A t \in 0..MaxFrames :
          (stateRef.present /\ stateRef.transitionProgress < Rate
                            /\ history.triggeredAt = t)
             ~> (\/ ~stateRef.present
                 \/ history.triggeredAt # t
                 \/ stateRef.transitionProgress = Rate)

\* a transition to busy has run to its end while an attempt is outstanding
C35_Witness ==
    /\ Mounted
    /\ inflight # {}
    /\ stateRef.present
    /\ history.triggeredAt >= 1
    /\ stateRef.transitionProgress = Rate
    /\ stateRef.currentState = "busy"
    /\ stateRef.time = history.triggeredAt + Rate

\* C36 (no failure lost under overlap): failureCount is the number of failed
\* completions since the last successful one; in particular, while no attempt
\* has succeeded, it is the number of attempts that have completed, whichever
\* of the outstanding attempts completed first.
C36_NoFailureLost ==
    Mounted =>
        /\ connectionState.failureCount = history.consecFails
        /\ history.lastGood = NullStatus =>
               connectionState.failureCount = fetchCalls - Cardinality(inflight)

\* the two attempts initiated after attempt 1 have failed while it is outstanding
C36_Witness ==
    /\ Mounted
    /\ fetchCalls = 3
    /\ inflight = {1}
    /\ history.lastGood = NullStatus
    /\ connectionState.failureCount = 2

\* C37 (stop does not cancel): an attempt that completes after stopPolling
\* still has its outcome applied (a failure counts, a success resets the
\* connection state and sets the status); and once polling is stopped and no
\* attempt is outstanding, status and connectionState stay as they are and no
\* attempt begins, except by startPolling or refresh.
C37_StopLeavesInflight ==
    [][(Mounted /\ history.stopped) =>
          /\ \A a \in inflight \ inflight' :
                \/ /\ connectionState' = OnFailure(connectionState, maxFailures)
                   /\ status' = status
                \/ /\ connectionState' = OnSuccess(connectionState, now)
                   /\ status' \in {NewStatus(DocBusy), NewStatus(DocIdle)}
          /\ inflight = {} =>
                /\ status' = status
                /\ connectionState' = connectionState
                /\ \/ inflight' = {}
                   \/ history'.starts > history.starts
                   \/ history'.awaited # {}]_vars

\* polling was stopped before the first interval passed, and the one attempt
\* it had initiated has succeeded after that interval
C37_Witness ==
    /\ Mounted
    /\ history.stopped
    /\ fetchCalls = 1
    /\ inflight = {}
    /\ now = 2
    /\ connectionState.lastSuccessTime = 2
    /\ status.present
    /\ status.busy

\* C38 (stop, then start): neither stopPolling nor the startPolling that
\* follows it changes status, failureCount, connected or lastSuccessTime; the
\* restart initiates exactly one attempt at once and arms exactly one timer,
\* none being armed before it, and each interval that passes after the
\* restart initiates exactly one attempt.
C38_RestartKeepsData ==
    [][Mounted =>
          /\ (~history.stopped /\ history'.stopped) =>
                 /\ status' = status
                 /\ connectionState' = connectionState
                 /\ timers' = {}
          /\ (history.stopped /\ ~history'.stopped) =>
                 /\ status' = status
                 /\ connectionState' = connectionState
                 /\ now' = now
                 /\ fetchCalls' = fetchCalls + 1
                 /\ inflight' = inflight \cup {fetchCalls + 1}
                 /\ timers = {}
                 /\ Cardinality(timers') = 1
          /\ (history.starts >= 2 /\ ~history.stopped /\ now' = now + 1) =>
                 /\ fetchCalls' = fetchCalls + 1
                 /\ inflight' = inflight \cup {fetchCalls + 1}]_vars

\* polling restarted at clock 2 with a status and a failure kept from before,
\* and one interval has passed since
C38_Witness ==
    /\ Mounted
    /\ history.starts = 2
    /\ ~history.stopped
    /\ history.startedAt = 2
    /\ now = 3
    /\ fetchCalls = 3
    /\ status.present
    /\ connectionState.lastSuccessTime = 1
    /\ Cardinality(timers) = 1

============================================================================
